---------------------------- MODULE Spec2Model ----------------------------
(***************************************************************************)
(* A model of src/evaluation_tools.py (class EvaluationTools): the metric  *)
(* computation of `test` and the two repetition drivers                    *)
(* `evaluate_multiple_times` and `evaluate_k_fold`.                        *)
(*                                                                         *)
(* Python floats are modelled as exact rationals <<numerator, denominator>>*)
(* in lowest terms with a positive denominator, so every statement below   *)
(* is about the real-number value of the computation; IEEE-754 rounding    *)
(* (1.0 - 1.0/3.0 differs from 2.0/3.0 in the last bit) is not modelled.   *)
(* The counters n_errors, N, P, TN, TP are floats that only ever hold      *)
(* small whole numbers; they are modelled as integers.                     *)
(***************************************************************************)
EXTENDS Integers, Sequences, FiniteSets, TLC

VARIABLES
    pc,                  \* position of control
    mode,                \* which entry point was called: "test", "multiple", "kfold"
    \* ---- the frame of EvaluationTools.test
    Y_test,              \* the labels handed to test
    new_threshold,       \* the threshold handed to test (and to the drivers)
    Y_predicted_binary,  \* the binary decisions used by the counting loop
    Y_predicted,         \* the scores returned by dipnn.predict
    model_binary,        \* the binary decisions dipnn.predict returned
    idx,                 \* number of (y_p, y) pairs the loop has consumed
    counts,              \* [n_errors, N, P, TN, TP]
    TP_rate, TN_rate, roc_auc_score_value, precision, recall,
    printed,             \* what print() has written, in order
    returned,            \* the tuple returned by the entry point, <<>> before
    raised,              \* the exception that left the entry point, "" if none
    \* ---- the frame of the drivers
    Y,                   \* the labels of the whole data set
    no_runs,             \* no_runs (evaluate_multiple_times) or n_folds (evaluate_k_fold)
    test_size,           \* the test fraction of evaluate_multiple_times
    k,                   \* iterations completed
    folds,               \* what kf.split(X) yields: <<train_index, test_index>> pairs
    iters,               \* the <<train_index, test_index>> pairs the k-fold loop has used
    acc,                 \* accuracy returned by the last test call
    sums,                \* [acc, TP_rate, TN_rate, roc_auc]: the running sums
    accuracy_list, roc_auc_list, training_time, test_time,
    report,              \* the aggregate values printed after the loop
    history,             \* the tuples the test calls of the loop returned, in order
    \* ---- the borrowed model object
    calls,               \* the methods of dipnn called so far, in order
    trained,             \* 0: default state; j: trained in iteration j
    representation       \* the iteration whose model get_the_model_representation described, -1 before

testVars == <<Y_test, new_threshold, Y_predicted_binary, Y_predicted, model_binary,
              idx, counts, TP_rate, TN_rate, roc_auc_score_value, precision, recall>>
driverVars == <<Y, no_runs, test_size, k, folds, iters, acc, sums,
                accuracy_list, roc_auc_list, training_time, test_time, report, history>>
modelVars == <<calls, trained, representation>>
vars == <<pc, mode, testVars, printed, returned, raised, driverVars, modelVars>>

---------------------------------------------------------------------------
(* Bounds of the model *)

\* longest label vector handed to a direct call of test
MaxLen == 4
\* largest data set handed to a driver
MaxSamples == 4
\* largest no_runs; n_folds ranges up to one more
MaxRuns == 2

---------------------------------------------------------------------------
(* Float arithmetic, exact *)

Abs(a) == IF a < 0 THEN -a ELSE a

RECURSIVE GCD(_, _)
GCD(a, b) == IF b = 0 THEN a ELSE GCD(b, a % b)

\* the float n/d, d # 0
Rat(n, d) ==
    LET s == IF d < 0 THEN -1 ELSE 1
        g == GCD(Abs(n), Abs(d))
    IN  <<(s * n) \div g, (s * d) \div g>>

Float(n) == <<n, 1>>
RAdd(a, b) == Rat(a[1] * b[2] + b[1] * a[2], a[2] * b[2])
RSub(a, b) == Rat(a[1] * b[2] - b[1] * a[2], a[2] * b[2])
RMul(a, b) == Rat(a[1] * b[1], a[2] * b[2])
RDiv(a, b) == Rat(a[1] * b[2], a[2] * b[1])
RLeq(a, b) == a[1] * b[2] <= b[1] * a[2]

\* a local that has not been assigned yet
Unset == <<0, 0>>

---------------------------------------------------------------------------
(* The inputs *)

Labels == {0, 1}
\* the scores a model may give a row
Scores == {Rat(3, 10), Rat(6, 10), Rat(9, 10)}
\* new_threshold: the default -1, and thresholds at, between and below the scores
Thresholds == {Float(-1), Float(0), Rat(6, 10), Rat(7, 10)}

SeqsOfLen(S, n) == [1..n -> S]

---------------------------------------------------------------------------
(* EvaluationTools.test *)

\* a variant of Rethreshold: a score has to exceed the threshold
RethresholdStrict(scores, threshold) ==
    [j \in 1..Len(scores) |-> IF ~RLeq(scores[j], threshold) THEN 1 ELSE 0]

\* lines 21, 23: the decisions a threshold makes of the scores
Rethreshold(scores, threshold) ==
    [j \in 1..Len(scores) |-> IF RLeq(threshold, scores[j]) THEN 1 ELSE 0]

\* line 21: dipnn.predict returns the scores and its own decisions, which
\* are the scores cut at "the default 0.5 value" (lines 71, 133)
ModelDecisions(scores) == Rethreshold(scores, Rat(1, 2))

\* lines 22-23
Threshold(binary, scores, threshold) ==
    IF RLeq(Float(0), threshold) THEN Rethreshold(scores, threshold) ELSE binary

\* lines 24-28
ZeroCounts == [n_errors |-> 0, N |-> 0, P |-> 0, TN |-> 0, TP |-> 0]

\* a variant of CountError: only a wrongly predicted positive counts
CountFalsePositives(c, y_p, y) == IF y_p = 1 /\ y = 0 THEN c.n_errors + 1 ELSE c.n_errors

\* lines 30-31
CountError(c, y_p, y) == IF y_p # y THEN c.n_errors + 1 ELSE c.n_errors

\* a variant of LoopBody: the test of line 38 is not nested in that of line 36
LoopBodyFlat(c, y_p, y) ==
    [n_errors |-> CountError(c, y_p, y),
     P        |-> IF y = 1 THEN c.P + 1 ELSE c.P,
     TP       |-> IF y = 1 /\ y_p = 1 THEN c.TP + 1 ELSE c.TP,
     N        |-> IF y = 0 THEN c.N + 1 ELSE c.N,
     TN       |-> IF y_p = 0 THEN c.TN + 1 ELSE c.TN]

\* lines 30-39: one pass of the loop body
LoopBody(c, y_p, y) ==
    [n_errors |-> CountError(c, y_p, y),
     P        |-> IF y = 1 THEN c.P + 1 ELSE c.P,
     TP       |-> IF y = 1 /\ y_p = 1 THEN c.TP + 1 ELSE c.TP,
     N        |-> IF y = 0 THEN c.N + 1 ELSE c.N,
     TN       |-> IF y = 0 /\ y_p = 0 THEN c.TN + 1 ELSE c.TN]

Min(a, b) == IF a <= b THEN a ELSE b

\* lines 29-39: the counters after the first j pairs of zip(binary, labels)
RECURSIVE Loop(_, _, _)
Loop(binary, labels, j) ==
    IF j = 0 THEN ZeroCounts
    ELSE LoopBody(Loop(binary, labels, j - 1), binary[j], labels[j])

\* lines 40-44
TPRate(c) == IF c.P = 0 THEN Float(1) ELSE Rat(c.TP, c.P)
\* lines 45-49
TNRate(c) == IF c.N = 0 THEN Float(1) ELSE Rat(c.TN, c.N)
\* lines 40-49: the advisories of the two rates
RateAdvisories(c) ==
    (IF c.P = 0 THEN <<"No positive examples were found!">> ELSE <<>>)
    \o (IF c.N = 0 THEN <<"No negative examples were found!">> ELSE <<>>)

\* line 50: the labels as handed to roc_auc_score
Binarize(labels) == [j \in 1..Len(labels) |-> IF labels[j] > 0 THEN 1 ELSE 0]

\* line 50: roc_auc_score refuses a label vector with one class only
AucUndefined(labels) == Cardinality({labels[j] : j \in 1..Len(labels)}) < 2

\* line 50: roc_auc_score on two classes: the share of (positive, negative)
\* pairs the scores rank correctly, a tie counting one half
RocAuc(labels, scores) ==
    LET pos  == {j \in 1..Len(labels) : labels[j] = 1}
        neg  == {j \in 1..Len(labels) : labels[j] = 0}
        gt   == Cardinality({p \in pos \X neg :
                    ~RLeq(scores[p[1]], scores[p[2]])})
        ties == Cardinality({p \in pos \X neg : scores[p[1]] = scores[p[2]]})
    IN  Rat(2 * gt + ties, 2 * Cardinality(pos) * Cardinality(neg))

\* a variant of Precision: the true negatives are not taken off the negatives
PrecisionOverAllNegatives(c) ==
    IF c.TP + c.N # 0 THEN Rat(c.TP, c.TP + c.N) ELSE Float(0)

\* lines 51-56
Precision(c) ==
    IF c.TP + c.N - c.TN # 0 THEN Rat(c.TP, c.TP + c.N - c.TN) ELSE Float(0)
PrecisionAdvisory(c) ==
    IF c.TP + c.N - c.TN # 0 THEN <<>> ELSE <<"No true positive examples were found!">>

\* line 58: the first component of the returned tuple
Accuracy(c, binary) == RSub(Float(1), Rat(c.n_errors, Len(binary)))

\* line 21 (predict returns), lines 22-28
TestPredict ==
    /\ pc = "predict"
    /\ \E s \in SeqsOfLen(Scores, Len(Y_test)) :
        /\ model_binary' = ModelDecisions(s)
        /\ Y_predicted' = s
        /\ Y_predicted_binary' = Threshold(ModelDecisions(s), s, new_threshold)
    /\ counts' = ZeroCounts
    /\ idx' = 0
    /\ calls' = Append(calls, "predict")
    /\ pc' = "loop"
    /\ UNCHANGED <<mode, Y_test, new_threshold, TP_rate, TN_rate, roc_auc_score_value,
                   precision, recall, printed, returned, raised, driverVars,
                   trained, representation>>

\* line 21: predict raises, and nothing catches it
TestPredictRaises ==
    /\ pc = "predict"
    /\ calls' = Append(calls, "predict")
    /\ raised' = "ModelError"
    /\ pc' = "error"
    /\ UNCHANGED <<mode, testVars, printed, returned, driverVars, trained, representation>>

\* lines 29-39: one iteration of the loop
TestLoopStep ==
    /\ pc = "loop"
    /\ idx < Min(Len(Y_predicted_binary), Len(Y_test))
    /\ idx' = idx + 1
    /\ counts' = LoopBody(counts, Y_predicted_binary[idx + 1], Y_test[idx + 1])
    /\ UNCHANGED <<pc, mode, Y_test, new_threshold, Y_predicted_binary, Y_predicted,
                   model_binary, TP_rate, TN_rate, roc_auc_score_value, precision,
                   recall, printed, returned, raised, driverVars, modelVars>>

\* lines 40-49, after the loop is exhausted
TestRates ==
    /\ pc = "loop"
    /\ idx = Min(Len(Y_predicted_binary), Len(Y_test))
    /\ TP_rate' = TPRate(counts)
    /\ TN_rate' = TNRate(counts)
    /\ printed' = printed \o RateAdvisories(counts)
    /\ pc' = "auc"
    /\ UNCHANGED <<mode, Y_test, new_threshold, Y_predicted_binary, Y_predicted,
                   model_binary, idx, counts, roc_auc_score_value, precision, recall,
                   returned, raised, driverVars, modelVars>>

\* line 50
TestAuc ==
    /\ pc = "auc"
    /\ IF AucUndefined(Binarize(Y_test))
       THEN /\ raised' = "ValueError"
            /\ pc' = "error"
            /\ UNCHANGED roc_auc_score_value
       ELSE /\ roc_auc_score_value' = RocAuc(Binarize(Y_test), Y_predicted)
            /\ pc' = "precision"
            /\ UNCHANGED raised
    /\ UNCHANGED <<mode, Y_test, new_threshold, Y_predicted_binary, Y_predicted,
                   model_binary, idx, counts, TP_rate, TN_rate, precision, recall,
                   printed, returned, driverVars, modelVars>>

\* lines 51-58
TestReturn ==
    /\ pc = "precision"
    /\ precision' = Precision(counts)
    /\ printed' = printed \o PrecisionAdvisory(counts)
    /\ recall' = TP_rate
    /\ returned' = <<Accuracy(counts, Y_predicted_binary), TP_rate, TN_rate,
                     Precision(counts), TP_rate, roc_auc_score_value>>
    /\ pc' = "done"
    /\ UNCHANGED <<mode, Y_test, new_threshold, Y_predicted_binary, Y_predicted,
                   model_binary, idx, counts, TP_rate, TN_rate, roc_auc_score_value,
                   raised, driverVars, modelVars>>

\* lines 75-81, 138-145: the locals of a driver before its loop
ZeroSums == [acc |-> Float(0), TP_rate |-> Float(0), TN_rate |-> Float(0),
             roc_auc |-> Float(0)]
NoReport == [avg_acc |-> Unset, var_acc |-> Unset, avg_tp_rate |-> Unset,
             avg_tn_rate |-> Unset, precision |-> Unset, recall |-> Unset,
             avg_roc |-> Unset, var_roc |-> Unset,
             avg_training_time |-> Unset, var_training_time |-> Unset,
             avg_test_time |-> Unset, var_test_time |-> Unset]

\* a direct call test(dipnn, X_test, Y_test, new_threshold) on a trained model
InitTest ==
    /\ pc = "predict"
    /\ mode = "test"
    /\ \E n \in 1..MaxLen : Y_test \in SeqsOfLen(Labels, n)
    /\ new_threshold \in Thresholds
    /\ Y_predicted_binary = <<>> /\ Y_predicted = <<>> /\ model_binary = <<>>
    /\ idx = 0
    /\ counts = ZeroCounts
    /\ TP_rate = Unset /\ TN_rate = Unset /\ roc_auc_score_value = Unset
    /\ precision = Unset /\ recall = Unset
    /\ printed = <<>> /\ returned = <<>> /\ raised = ""
    /\ Y = <<>> /\ no_runs = 0 /\ test_size = Unset /\ k = 0
    /\ folds = <<>> /\ iters = <<>> /\ acc = Unset
    /\ sums = ZeroSums
    /\ accuracy_list = <<>> /\ roc_auc_list = <<>>
    /\ training_time = <<>> /\ test_time = <<>>
    /\ report = NoReport /\ history = <<>>
    /\ calls = <<>> /\ trained = 1 /\ representation = -1

NextTest ==
    \/ TestPredict
    \/ TestPredictRaises
    \/ TestLoopStep
    \/ TestRates
    \/ TestAuc
    \/ TestReturn

SpecTest == InitTest /\ [][NextTest]_vars

---------------------------------------------------------------------------
(* The call of test made by a driver, taken as one step *)

\* a variant of TestOutcome: the failure of roc_auc_score is caught and an
\* AUC of 0.5 stands in for it
TestOutcomeCaught(binary, scores, labels, threshold) ==
    LET bin == Threshold(binary, scores, threshold)
        c   == Loop(bin, labels, Min(Len(bin), Len(labels)))
        bad == AucUndefined(Binarize(labels))
    IN  [raised  |-> "",
         printed |-> RateAdvisories(c) \o PrecisionAdvisory(c),
         value   |-> <<Accuracy(c, bin), TPRate(c), TNRate(c), Precision(c), TPRate(c),
                       IF bad THEN Rat(1, 2) ELSE RocAuc(Binarize(labels), scores)>>]

\* lines 21-58: what test prints and returns (or raises) once predict has
\* returned (binary, scores)
TestOutcome(binary, scores, labels, threshold) ==
    LET bin == Threshold(binary, scores, threshold)
        c   == Loop(bin, labels, Min(Len(bin), Len(labels)))
        bad == AucUndefined(Binarize(labels))
    IN  [raised  |-> IF bad THEN "ValueError" ELSE "",
         printed |-> RateAdvisories(c) \o (IF bad THEN <<>> ELSE PrecisionAdvisory(c)),
         value   |-> IF bad THEN <<>>
                     ELSE <<Accuracy(c, bin), TPRate(c), TNRate(c), Precision(c),
                            TPRate(c), RocAuc(Binarize(labels), scores)>>]

---------------------------------------------------------------------------
(* The splitters *)

\* the wall-clock durations time.time() may measure
Elapsed == {Float(1), Float(2)}
\* the test fractions handed to evaluate_multiple_times (0.2 is the default)
TestSizes == {Rat(1, 5), Rat(2, 5)}
\* the scores the model gives a row in a run of a driver
DriverScores == {Rat(3, 10), Rat(9, 10)}
\* new_threshold in a run of a driver: the default, and one that overrides
DriverThresholds == {Float(-1), Float(0)}

\* ceil(a) for a float a >= 0
Ceil(a) == IF a[1] % a[2] = 0 THEN a[1] \div a[2] ELSE a[1] \div a[2] + 1

RECURSIVE SortedSeq(_)
SortedSeq(S) ==
    IF S = {} THEN <<>>
    ELSE LET m == CHOOSE x \in S : \A y \in S : x <= y
         IN  <<m>> \o SortedSeq(S \ {m})

Range(f) == {f[j] : j \in DOMAIN f}
Select(labels, index) == [j \in 1..Len(index) |-> labels[index[j]]]

\* line 85, train_test_split: the number of test rows for a fraction
NTest(n, fraction) == Ceil(RMul(Float(n), fraction))

\* line 85, train_test_split: the rows are shuffled and the first n_test of
\* them are the test rows (any rows, in any order)
TestRows(n, n_test) == {t \in [1..n_test -> 1..n] : Cardinality(Range(t)) = n_test}

\* line 146, KFold.split: the size of fold j of n_folds over n rows
FoldSize(n, n_folds, j) == n \div n_folds + (IF j <= n % n_folds THEN 1 ELSE 0)

\* line 146-148, KFold(shuffle=True).split: the rows are shuffled (any row may
\* land in any fold), fold j takes FoldSize rows, and each fold is yielded
\* as (the other rows, its rows), both in increasing order
KFoldSplits(n, n_folds) ==
    LET assignments == {a \in [1..n -> 1..n_folds] :
                          \A j \in 1..n_folds :
                             Cardinality({r \in 1..n : a[r] = j}) = FoldSize(n, n_folds, j)}
    IN  {[j \in 1..n_folds |->
            <<SortedSeq({r \in 1..n : a[r] # j}), SortedSeq({r \in 1..n : a[r] = j})>>]
         : a \in assignments}

---------------------------------------------------------------------------
(* The aggregates *)

RECURSIVE Sum(_)
Sum(list) == IF list = <<>> THEN Float(0) ELSE RAdd(list[1], Sum(Tail(list)))

\* sum(list)/float(n)
Average(list, n) == RDiv(Sum(list), Float(n))

\* np.sum((np.array(list) - avg)**2)
SquaredDeviations(list, avg) ==
    Sum([j \in 1..Len(list) |-> RMul(RSub(list[j], avg), RSub(list[j], avg))])

\* a variant of Variance: the sample variance, over n - 1
VarianceUnbiased(list, avg, n) ==
    RDiv(SquaredDeviations(list, avg), Float(IF n > 1 THEN n - 1 ELSE n))

\* lines 100, 102, 104, 168, 170, 172, 174
Variance(list, avg, n) == RDiv(SquaredDeviations(list, avg), Float(n))

---------------------------------------------------------------------------
(* The drivers *)

\* a variant of ResetAndTrain: the model is reset after it was trained
TrainAndReset(test_labels) ==
    /\ Y_test' = test_labels
    /\ \/ /\ calls' = calls \o <<"train", "set_to_default">>
          /\ trained' = 0
          /\ \E t \in Elapsed : training_time' = Append(training_time, t)
          /\ pc' = "test"
          /\ UNCHANGED raised
       \/ /\ calls' = Append(calls, "train")
          /\ trained' = 0
          /\ raised' = "ModelError"
          /\ pc' = "error"
          /\ UNCHANGED training_time

\* lines 84-89 and 150-156: reset, train on the training rows, time it
ResetAndTrain(test_labels) ==
    /\ Y_test' = test_labels
    /\ \/ /\ calls' = calls \o <<"set_to_default", "train">>
          /\ trained' = k + 1
          /\ \E t \in Elapsed : training_time' = Append(training_time, t)
          /\ pc' = "test"
          /\ UNCHANGED raised
       \/ \* train raises, and nothing catches it
          /\ calls' = calls \o <<"set_to_default", "train">>
          /\ trained' = 0
          /\ raised' = "ModelError"
          /\ pc' = "error"
          /\ UNCHANGED training_time

\* lines 82-89
MultiTrain ==
    /\ pc = "loop" /\ mode = "multiple"
    /\ k < no_runs
    /\ LET n == Len(Y)
           n_test == NTest(n, test_size)
       IN  IF n - n_test = 0
           THEN \* train_test_split raises: the training set would be empty
                /\ calls' = Append(calls, "set_to_default")
                /\ trained' = 0
                /\ raised' = "ValueError"
                /\ pc' = "error"
                /\ UNCHANGED <<Y_test, training_time>>
           ELSE \E test_rows \in TestRows(n, n_test) :
                  ResetAndTrain(Select(Y, test_rows))
    /\ UNCHANGED <<mode, new_threshold, Y_predicted_binary, Y_predicted, model_binary,
                   idx, counts, TP_rate, TN_rate, roc_auc_score_value, precision, recall,
                   printed, returned, Y, no_runs, test_size, k, folds, iters, acc, sums,
                   accuracy_list, roc_auc_list, test_time, report, history,
                   representation>>

\* lines 146-148: the splitter is built and asked for its first fold
KFoldSplit ==
    /\ pc = "start" /\ mode = "kfold"
    /\ IF no_runs < 2 \/ no_runs > Len(Y)
       THEN \* KFold refuses fewer than 2 folds, and more folds than rows
            /\ raised' = "ValueError"
            /\ pc' = "error"
            /\ UNCHANGED folds
       ELSE /\ folds' \in KFoldSplits(Len(Y), no_runs)
            /\ pc' = "loop"
            /\ UNCHANGED raised
    /\ UNCHANGED <<mode, testVars, printed, returned, Y, no_runs, test_size, k, iters,
                   acc, sums, accuracy_list, roc_auc_list, training_time,
                   test_time, report, history, modelVars>>

\* a variant of NextFold: every iteration takes the first pair
FirstFold == folds[1]

\* line 148: the pair the loop takes from the splitter in this iteration
NextFold == folds[k + 1]

\* lines 148-156
KFoldTrain ==
    /\ pc = "loop" /\ mode = "kfold"
    /\ k < Len(folds)
    /\ LET train_index == NextFold[1]
           test_index  == NextFold[2]
       IN  /\ iters' = Append(iters, <<train_index, test_index>>)
           /\ ResetAndTrain(Select(Y, test_index))
    /\ UNCHANGED <<mode, new_threshold, Y_predicted_binary, Y_predicted, model_binary,
                   idx, counts, TP_rate, TN_rate, roc_auc_score_value, precision, recall,
                   printed, returned, Y, no_runs, test_size, k, folds, acc, sums,
                   accuracy_list, roc_auc_list, test_time, report, history,
                   representation>>

\* lines 91 and 158: the call of test
CallTest ==
    /\ pc = "test"
    /\ calls' = Append(calls, "predict")
    /\ \/ \E s \in SeqsOfLen(DriverScores, Len(Y_test)) :
            LET out == TestOutcome(ModelDecisions(s), s, Y_test, new_threshold)
            IN  /\ printed' = printed \o out.printed
                /\ IF out.raised # ""
                   THEN /\ raised' = out.raised
                        /\ pc' = "error"
                        /\ UNCHANGED <<acc, TP_rate, TN_rate, precision, recall,
                                       roc_auc_score_value, history>>
                   ELSE /\ history' = Append(history, out.value)
                        /\ acc' = out.value[1]
                        /\ TP_rate' = out.value[2]
                        /\ TN_rate' = out.value[3]
                        /\ precision' = out.value[4]
                        /\ recall' = out.value[5]
                        /\ roc_auc_score_value' = out.value[6]
                        /\ pc' = "accumulate"
                        /\ UNCHANGED raised
       \/ \* predict raises, and nothing catches it
          /\ raised' = "ModelError"
          /\ pc' = "error"
          /\ UNCHANGED <<acc, TP_rate, TN_rate, precision, recall, roc_auc_score_value,
                         printed, history>>
    /\ UNCHANGED <<mode, Y_test, new_threshold, Y_predicted_binary, Y_predicted,
                   model_binary, idx, counts, returned, Y, no_runs, test_size, k, folds,
                   iters, sums, accuracy_list, roc_auc_list, training_time,
                   test_time, report, trained, representation>>

\* lines 95-98 and 163-166
AddToSums(s) ==
    [acc     |-> RAdd(s.acc, acc),
     TP_rate |-> RAdd(s.TP_rate, TP_rate),
     TN_rate |-> RAdd(s.TN_rate, TN_rate),
     roc_auc |-> RAdd(s.roc_auc, roc_auc_score_value)]

\* lines 92-98 and 159-166
Accumulate ==
    /\ pc = "accumulate"
    /\ \E t \in Elapsed : test_time' = Append(test_time, t)
    /\ accuracy_list' = Append(accuracy_list, acc)
    /\ roc_auc_list' = IF mode = "kfold" THEN Append(roc_auc_list, roc_auc_score_value)
                       ELSE roc_auc_list
    /\ sums' = AddToSums(sums)
    /\ k' = k + 1
    /\ pc' = "loop"
    /\ UNCHANGED <<mode, testVars, printed, returned, raised, Y, no_runs, test_size,
                   folds, iters, acc, training_time, report, history, modelVars>>

\* the divisor of the aggregates: float(no_runs), float(n_folds)
Divisor == no_runs

\* a variant of LastPrecision: the precision averaged over the iterations
AveragedPrecision == Average([j \in 1..Len(history) |-> history[j][4]], Len(history))

\* lines 113-114, 183-184: the precision and recall printed after the loop are
\* the locals as the last call of test set them
LastPrecision == precision
LastRecall == recall

\* lines 99-119 and 167-190: the values printed after the loop
Report(n) ==
    LET avg_acc == RDiv(sums.acc, Float(n))
        avg_roc == RDiv(sums.roc_auc, Float(n))
        avg_training_time == Average(training_time, n)
        avg_test_time == Average(test_time, n)
    IN  [avg_acc |-> avg_acc,
         var_acc |-> Variance(accuracy_list, avg_acc, n),
         avg_tp_rate |-> RDiv(sums.TP_rate, Float(n)),
         avg_tn_rate |-> RDiv(sums.TN_rate, Float(n)),
         precision |-> LastPrecision,
         recall |-> LastRecall,
         avg_roc |-> avg_roc,
         var_roc |-> IF mode = "kfold" THEN Variance(roc_auc_list, avg_roc, n) ELSE Unset,
         avg_training_time |-> avg_training_time,
         var_training_time |-> Variance(training_time, avg_training_time, n),
         avg_test_time |-> avg_test_time,
         var_test_time |-> Variance(test_time, avg_test_time, n)]

\* lines 120 and 191
Returned(r) ==
    <<r.avg_acc, r.avg_training_time, r.var_training_time, r.avg_test_time,
      r.var_test_time, r.avg_tp_rate, r.avg_tn_rate, r.avg_roc>>

\* lines 99-120 and 167-191, once the loop is over
Aggregate ==
    /\ pc = "loop"
    /\ \/ mode = "multiple" /\ k = no_runs
       \/ mode = "kfold" /\ k = Len(folds)
    /\ IF Divisor = 0
       THEN \* sum_acc/float(no_runs) raises
            /\ raised' = "ZeroDivisionError"
            /\ pc' = "error"
            /\ UNCHANGED <<report, returned, modelVars>>
       ELSE /\ calls' = Append(calls, "get_the_model_representation")
            /\ representation' = trained
            /\ report' = Report(Divisor)
            /\ returned' = Returned(Report(Divisor))
            /\ pc' = "done"
            /\ UNCHANGED <<raised, trained>>
    /\ UNCHANGED <<mode, testVars, printed, Y, no_runs, test_size, k, folds, iters,
                   acc, sums, accuracy_list, roc_auc_list, training_time,
                   test_time, history>>

\* the label vectors of n rows; both splitters shuffle the rows, so a data
\* set is given by how many of its rows are positive
DataSets(n) == {[j \in 1..n |-> IF j <= p THEN 1 ELSE 0] : p \in 0..n}

\* a call evaluate_multiple_times(dipnn, X, Y, no_runs, test_size, ..., new_threshold)
\* or evaluate_k_fold(dipnn, X, Y, n_folds, ..., new_threshold), lines 75-81, 138-145
InitEval ==
    /\ mode \in {"multiple", "kfold"}
    /\ pc = IF mode = "multiple" THEN "loop" ELSE "start"
    /\ \E n \in 1..MaxSamples : Y \in DataSets(n)
    /\ no_runs \in IF mode = "multiple" THEN 0..MaxRuns ELSE 1..(MaxRuns + 1)
    /\ test_size \in IF mode = "multiple" THEN TestSizes ELSE {Unset}
    /\ new_threshold \in DriverThresholds
    /\ Y_test = <<>>
    /\ Y_predicted_binary = <<>> /\ Y_predicted = <<>> /\ model_binary = <<>>
    /\ idx = 0
    /\ counts = ZeroCounts
    /\ TP_rate = Unset /\ TN_rate = Unset /\ roc_auc_score_value = Unset
    /\ precision = Unset /\ recall = Unset /\ acc = Unset
    /\ printed = <<>> /\ returned = <<>> /\ raised = ""
    /\ k = 0 /\ folds = <<>> /\ iters = <<>>
    /\ sums = ZeroSums
    /\ accuracy_list = <<>> /\ roc_auc_list = <<>>
    /\ training_time = <<>> /\ test_time = <<>>
    /\ report = NoReport /\ history = <<>>
    /\ calls = <<>> /\ trained = 0 /\ representation = -1

NextEval ==
    \/ MultiTrain
    \/ KFoldSplit
    \/ KFoldTrain
    \/ CallTest
    \/ Accumulate
    \/ Aggregate

SpecEval == InitEval /\ [][NextEval]_vars

---------------------------------------------------------------------------
(* Properties of test, checked under SpecTest *)

\* the call of test is over and predict did not fail
TestEnded == mode = "test" /\ pc \in {"done", "error"} /\ raised # "ModelError"
TestReturned == mode = "test" /\ pc = "done"

Positives == {j \in 1..Len(Y_test) : Y_test[j] = 1}
Negatives == {j \in 1..Len(Y_test) : Y_test[j] = 0}
PredictedPositive == {j \in 1..Len(Y_predicted_binary) : Y_predicted_binary[j] = 1}
PredictedNegative == {j \in 1..Len(Y_predicted_binary) : Y_predicted_binary[j] = 0}
Mismatches == {j \in 1..Len(Y_test) : Y_predicted_binary[j] # Y_test[j]}
Printed(message) == \E j \in 1..Len(printed) : printed[j] = message
InUnitInterval(x) == RLeq(Float(0), x) /\ RLeq(x, Float(1))

\* C1: a call of test on labels without a positive example prints the "no
\* positive examples" advisory and returns a TP-rate of 1.0 instead of
\* raising, and a call on labels without a negative example prints the "no
\* negative examples" advisory and returns a TN-rate of 1.0 instead of raising.
C1_DegenerateLabelsReturnFallback ==
    /\ (TestEnded /\ Positives = {}) =>
          /\ Printed("No positive examples were found!")
          /\ pc = "done"
          /\ returned[2] = Float(1)
    /\ (TestEnded /\ Negatives = {}) =>
          /\ Printed("No negative examples were found!")
          /\ pc = "done"
          /\ returned[3] = Float(1)

\* C2: the accuracy test returns is 1 - (number of positions where the
\* prediction differs from the label)/length, and lies in [0, 1].
C2_Accuracy ==
    TestReturned =>
        /\ Len(Y_predicted_binary) = Len(Y_test)
        /\ returned[1] = RSub(Float(1), Rat(Cardinality(Mismatches), Len(Y_test)))
        /\ InUnitInterval(returned[1])

\* Y_test = [1,1,0,0] predicted [1,0,0,0]: accuracy 0.75, TP-rate 0.5,
\* TN-rate 1.0, precision 1.0
C2_Witness ==
    /\ TestReturned
    /\ Y_test = <<1, 1, 0, 0>>
    /\ Y_predicted_binary = <<1, 0, 0, 0>>
    /\ returned[1] = Rat(3, 4)
    /\ returned[2] = Rat(1, 2)
    /\ returned[3] = Float(1)
    /\ returned[4] = Float(1)

\* C3: the precision test returns is TP/(TP + FP), FP the number of negative
\* examples predicted positive, when TP + FP is not zero; it is 0.0, with the
\* "no true positive examples" advisory, when TP + FP = 0, which happens only
\* with TP = 0 and every negative example predicted negative.
C3_Precision ==
    TestReturned =>
        LET TPn == Cardinality(Positives \cap PredictedPositive)
            FPn == Cardinality(Negatives \cap PredictedPositive)
        IN  /\ FPn = counts.N - counts.TN
            /\ TPn + FPn # 0 =>
                  /\ returned[4] = Rat(TPn, TPn + FPn)
                  /\ ~Printed("No true positive examples were found!")
            /\ TPn + FPn = 0 =>
                  /\ returned[4] = Float(0)
                  /\ Printed("No true positive examples were found!")
                  /\ counts.TP = 0
                  /\ Negatives \subseteq PredictedNegative

\* the zero-denominator branch was taken
C3_Witness ==
    /\ TestReturned
    /\ PredictedPositive = {}
    /\ Positives # {}
    /\ returned[4] = Float(0)
    /\ Printed("No true positive examples were found!")

C10_LoopInvariant ==
    mode = "test" =>
        /\ 0 <= counts.TP /\ counts.TP <= counts.P
        /\ 0 <= counts.TN /\ counts.TN <= counts.N
        /\ counts.P + counts.N = idx
        /\ counts.n_errors = (counts.P - counts.TP) + (counts.N - counts.TN)
        /\ pc \in {"auc", "precision", "done"} =>
              InUnitInterval(TP_rate) /\ InUnitInterval(TN_rate)
        /\ pc = "done" =>
              /\ recall = TP_rate
              /\ returned[5] = returned[2]
              /\ returned[1] = Rat(counts.TP + counts.TN, counts.P + counts.N)

\* in the middle of the pass, with a missed positive behind and pairs ahead
C10_Witness ==
    /\ mode = "test" /\ pc = "loop"
    /\ idx = 2 /\ idx < Len(Y_test)
    /\ counts.P = 2 /\ counts.TP = 1 /\ counts.n_errors = 1

---------------------------------------------------------------------------
(* Properties of the drivers, checked under SpecEval *)

DriverReturned == mode \in {"multiple", "kfold"} /\ pc = "done"

\* the mean and the population variance of a list, from its own length and
\* as the mean of the squares less the square of the mean
Mean(list) == RDiv(Sum(list), Float(Len(list)))
MeanOfSquares(list) == Mean([j \in 1..Len(list) |-> RMul(list[j], list[j])])
PopulationVariance(list) == RSub(MeanOfSquares(list), RMul(Mean(list), Mean(list)))
AllEqual(list) == \A i, j \in 1..Len(list) : list[i] = list[j]
IsMeanAndVariance(avg, var, list) ==
    /\ avg = Mean(list)
    /\ var = PopulationVariance(list)
    /\ AllEqual(list) <=> var = Float(0)

\* C5: the reported average of the per-run accuracies, training times, test
\* times (and, in k-fold, AUCs) is their sum divided by the number of runs, and
\* the reported variance is their population variance (squared deviations
\* over the number of runs, not one less), 0 when all the values are equal.
C5_AverageAndVariance ==
    DriverReturned =>
        /\ Len(accuracy_list) = no_runs
        /\ Len(training_time) = no_runs
        /\ Len(test_time) = no_runs
        /\ IsMeanAndVariance(report.avg_acc, report.var_acc, accuracy_list)
        /\ IsMeanAndVariance(report.avg_training_time, report.var_training_time,
                             training_time)
        /\ IsMeanAndVariance(report.avg_test_time, report.var_test_time, test_time)
        /\ mode = "kfold" =>
              /\ Len(roc_auc_list) = no_runs
              /\ IsMeanAndVariance(report.avg_roc, report.var_roc, roc_auc_list)
        /\ report.avg_roc = Mean([j \in 1..Len(history) |-> history[j][6]])
        /\ returned = <<report.avg_acc, report.avg_training_time,
                        report.var_training_time, report.avg_test_time,
                        report.var_test_time, report.avg_tp_rate, report.avg_tn_rate,
                        report.avg_roc>>

\* two runs with accuracies 0.5 and 1.0: average 0.75, variance 0.0625
C5_Witness ==
    /\ DriverReturned
    /\ accuracy_list = <<Rat(1, 2), Float(1)>>
    /\ report.avg_acc = Rat(3, 4)
    /\ report.var_acc = Rat(1, 16)
    /\ report.var_training_time = Rat(1, 4)

RowsOf(index) == {index[j] : j \in 1..Len(index)}
NoRepeats(index) == Cardinality(RowsOf(index)) = Len(index)
Rows == 1..Len(Y)

C7_LastPrecisionRecall ==
    DriverReturned =>
        /\ report.precision = history[Len(history)][4]
        /\ report.recall = history[Len(history)][5]
        /\ Len(returned) = 8

\* the first run's precision and recall differ from the last run's
C7_Witness ==
    /\ DriverReturned
    /\ Len(history) = 2
    /\ history[1][4] = Float(0) /\ history[2][4] = Float(1)
    /\ history[1][5] = Float(0) /\ history[2][5] = Float(1)
    /\ report.precision = Float(1)

\* C8: a failure of the AUC routine on a one-class test split, or of the
\* model's train or predict, is not caught: a test call on a one-class split
\* never returns, the driver ends with the exception, without the aggregates
\* printed or returned, and takes no step after it.
C8_Failed ==
    pc = "error" =>
        /\ raised # ""
        /\ returned = <<>>
        /\ report = NoReport
        /\ \A j \in 1..Len(calls) : calls[j] # "get_the_model_representation"
C8_FailurePropagates ==
    /\ [](mode \in {"multiple", "kfold"} =>
            /\ C8_Failed
            /\ pc = "accumulate" => ~AucUndefined(Y_test)
            /\ Len(history) = IF pc = "accumulate" THEN k + 1 ELSE k)
    /\ [][pc = "error" => UNCHANGED vars]_vars
    /\ [][(pc = "test" /\ AucUndefined(Y_test)) => pc' = "error"]_vars

\* the second iteration's test split has one class: the run ends there
C8_Witness ==
    /\ mode = "multiple" /\ pc = "error"
    /\ raised = "ValueError"
    /\ k = 1 /\ no_runs = 2
    /\ AucUndefined(Y_test)
    /\ calls = <<"set_to_default", "train", "predict", "set_to_default", "train", "predict">>

RECURSIVE ExpectedCalls(_)
ExpectedCalls(n) ==
    IF n = 0 THEN <<>>
    ELSE ExpectedCalls(n - 1) \o <<"set_to_default", "train", "predict">>
IsPrefix(a, b) == Len(a) <= Len(b) /\ SubSeq(b, 1, Len(a)) = a

\* C9: in a successful run the model is called set_to_default, train, predict,
\* in this order and once each, in each of exactly no_runs (n_folds)
\* iterations, one iteration after the other, and then once
\* get_the_model_representation, which describes the model trained in the
\* last iteration.
C9_CallOrder ==
    mode \in {"multiple", "kfold"} =>
        /\ pc # "done" => IsPrefix(calls, ExpectedCalls(k + 1))
        /\ pc = "done" =>
              /\ no_runs >= 1
              /\ k = no_runs
              /\ calls = ExpectedCalls(no_runs) \o <<"get_the_model_representation">>
              /\ representation = no_runs

\* a completed run of two iterations
C9_Witness ==
    /\ DriverReturned
    /\ no_runs = 2
    /\ Len(calls) = 7
    /\ representation = 2

===========================================================================
